---- MODULE Spec2Model ----
(***************************************************************************)
(* Model of app.py, the Streamlit rent estimator.                          *)
(*                                                                         *)
(* One process serves browser sessions.  Every interaction of a session    *)
(* (opening the page, changing a widget, pressing the button) re-executes  *)
(* the whole script from line 1 for that session; the two decorated        *)
(* loaders carregar_modelo / carregar_bairros share process-wide caches.   *)
(* A script run is modelled as a sequence of steps, pc[s] being the        *)
(* position of session s in the script.                                    *)
(***************************************************************************)
EXTENDS Integers, Sequences, FiniteSets, TLC

VARIABLES
    modelFile,        \* modelo_aluguel_rf.pkl on disk: what joblib.load finds
    bairrosFile,      \* bairros_unicos.json on disk: what open/json.load finds
    resourceCache,    \* st.cache_resource slot of carregar_modelo
    dataCache,        \* st.cache_data slot of carregar_bairros
    loads,            \* number of executions of each loader body (file reads)
    runs,             \* script runs started in this process
    pc,               \* per session: position in the script
    widgets,          \* per session: widget values kept by the session
    pressed,          \* per session: the run was triggered by "Estimar Valor"
    modelo_pipeline,  \* per session: module-level name bound at line 44
    bairros_unicos,   \* per session: module-level name bound at line 45
    out,              \* per session: elements rendered by the current run
    calls,            \* per session: batches passed to predict in this run
    attempt,          \* per session: value typed that a widget refused, still in its box
    ref               \* an earlier finished request, kept for comparison

vars == <<modelFile, bairrosFile, resourceCache, dataCache, loads, runs, pc,
          widgets, pressed, modelo_pipeline, bairros_unicos, out, calls,
          attempt, ref>>

(***************************************************************************)
(* Bounds of the exploration.                                              *)
(***************************************************************************)
MaxRuns == 3

Sessions == {"s1", "s2"}

(***************************************************************************)
(* The environment: the two files.                                         *)
(***************************************************************************)
\* What the unpickled pipeline does with a record is not in the source; the
\* three kinds cover a pipeline that ignores an unseen Bairro, one that
\* raises on it, and one whose predict(...)[0] is not a scalar.
PipelineKinds == {"tolerant", "strict", "multioutput"}

ModelFiles ==
    {[status |-> "missing", pipeline |-> "none"],
     [status |-> "corrupt", pipeline |-> "none"]}
    \cup {[status |-> "ok", pipeline |-> k] : k \in PipelineKinds}

KnownBairros == {"aclimacao", "bela vista", "centro"}

BairrosFiles ==
    {[status |-> "missing", conteudo |-> <<>>],
     [status |-> "corrupt", conteudo |-> <<>>]}
    \cup {[status |-> "ok", conteudo |-> c] :
            c \in {<<"bela vista", "aclimacao">>,
                   <<"bela vista", "centro">>}}

(***************************************************************************)
(* Widget declarations (lines 58-116).                                     *)
(***************************************************************************)
MetragemMin == 10
MetragemMax == 1000
MetragemDefault == 70
QuartosOptions == <<0, 1, 2, 3, 4, 5, 6, 7, 8>>
QuartosIndex == 2
BanheirosOptions == <<0, 1, 2, 3, 4, 5, 6>>
BanheirosIndex == 1
VagasOptions == <<0, 1, 2, 3, 4, 5>>
VagasIndex == 1
AndarMin == 0
AndarMax == 50
AndarDefault == 3
MobiliaOptions == <<0, 1>>
MobiliaIndex == 0
PetOptions == <<0, 1>>
PetIndex == 1

\* Python's None, as the value of a selectbox without options.
NoneValue == "None"
\* A selectbox that was never rendered in this session has no value yet.
Unset == "<unset>"

Range(seq) == {seq[i] : i \in 1..Len(seq)}

\* st.selectbox(options, index): the option at the 0-based index, None when
\* there are no options.
SelectboxDefault(options, index) ==
    IF Len(options) = 0 THEN NoneValue ELSE options[index + 1]

\* Variant: the lower limit is not enforced (min_value left out).
NumberInputAcceptsNoMin(v, lo, hi) == v <= hi

\* st.number_input(min_value, max_value): the widget only commits a value
\* inside [min_value, max_value].
NumberInputAccepts(v, lo, hi) == lo <= v /\ v <= hi

\* Session state of a page that was just opened: every widget at its
\* declared default; the Bairro default depends on the catalog and is
\* resolved when the selectbox is rendered.
InitialWidgets ==
    [Metragem |-> MetragemDefault,
     Quartos |-> SelectboxDefault(QuartosOptions, QuartosIndex),
     Banheiros |-> SelectboxDefault(BanheirosOptions, BanheirosIndex),
     Mobilia |-> SelectboxDefault(MobiliaOptions, MobiliaIndex),
     Pet |-> SelectboxDefault(PetOptions, PetIndex),
     Vagas |-> SelectboxDefault(VagasOptions, VagasIndex),
     Andar |-> AndarDefault,
     Bairro |-> Unset]

(***************************************************************************)
(* Rendered elements.  An element is a record; num carries a numeric       *)
(* payload and txt a textual one.                                          *)
(***************************************************************************)
El(kind, label, num, txt) == [el |-> kind, label |-> label, num |-> num, txt |-> txt]

(***************************************************************************)
(* The two loaders (lines 16-41) and the caching decorators.               *)
(***************************************************************************)
\* Variant: the generic handler returns instead of stopping, as the generic
\* handler of carregar_bairros does.
CarregarModeloBodyNoStop(file) ==
    IF file.status = "ok"
    THEN [stop |-> FALSE, msgs |-> <<>>, valor |-> file.pipeline]
    ELSE IF file.status = "missing"
    THEN [stop |-> TRUE,
          msgs |-> <<El("error", "modelo", 0, "Arquivo do modelo nao encontrado")>>,
          valor |-> "none"]
    ELSE [stop |-> FALSE,
          msgs |-> <<El("error", "modelo", 0, "Erro ao carregar o modelo")>>,
          valor |-> "none"]

\* Body of carregar_modelo: the value returned, the st.error elements it
\* renders, and whether it ends in st.stop().  st.stop() raises a script
\* control exception that no "except Exception" catches.
CarregarModeloBody(file) ==
    IF file.status = "ok"
    THEN [stop |-> FALSE, msgs |-> <<>>, valor |-> file.pipeline]
    ELSE IF file.status = "missing"
    THEN [stop |-> TRUE,
          msgs |-> <<El("error", "modelo", 0, "Arquivo do modelo nao encontrado")>>,
          valor |-> "none"]
    ELSE [stop |-> TRUE,
          msgs |-> <<El("error", "modelo", 0, "Erro ao carregar o modelo")>>,
          valor |-> "none"]

\* Body of carregar_bairros: a missing file ends in st.stop(); any other
\* exception renders an error and returns [].
CarregarBairrosBody(file) ==
    IF file.status = "ok"
    THEN [stop |-> FALSE, msgs |-> <<>>, valor |-> file.conteudo]
    ELSE IF file.status = "missing"
    THEN [stop |-> TRUE,
          msgs |-> <<El("error", "bairros", 0, "Arquivo de bairros nao encontrado")>>,
          valor |-> <<>>]
    ELSE [stop |-> FALSE,
          msgs |-> <<El("error", "bairros", 0, "Erro ao carregar a lista de bairros")>>,
          valor |-> <<>>]

EmptyResource == [hit |-> FALSE, msgs |-> <<>>, valor |-> "none"]
EmptyData == [hit |-> FALSE, msgs |-> <<>>, valor |-> <<>>]

\* @st.cache_resource / @st.cache_data around a loader without arguments:
\* on a hit the stored value is returned (and the elements the body
\* rendered are replayed) without running the body; on a miss the body
\* runs under the cache's lock, and its value is stored only if it
\* returned: a body that ended in st.stop() stores nothing.
CachedCall(cache, body) ==
    IF cache.hit
    THEN [stop |-> FALSE, msgs |-> cache.msgs, valor |-> cache.valor,
          computed |-> FALSE, cache |-> cache]
    ELSE [stop |-> body.stop, msgs |-> body.msgs, valor |-> body.valor,
          computed |-> TRUE,
          cache |-> IF body.stop THEN cache
                    ELSE [hit |-> TRUE, msgs |-> body.msgs, valor |-> body.valor]]

(***************************************************************************)
(* The form (lines 51-116).                                                *)
(***************************************************************************)
\* Lines 108-110: 0, or the 0-based position of 'aclimacao'.
BairroDefaultIndex(bairros) ==
    IF "aclimacao" \in Range(bairros)
    THEN (CHOOSE i \in 1..Len(bairros) :
            /\ bairros[i] = "aclimacao"
            /\ \A j \in 1..(i - 1) : bairros[j] # "aclimacao") - 1
    ELSE 0

\* Lines 112-116: the value the Bairro selectbox returns: the session's
\* choice while it is one of the options, else the option at the default
\* index (None without options).
BairroValue(current, bairros) ==
    IF current \in Range(bairros)
    THEN current
    ELSE SelectboxDefault(bairros, BairroDefaultIndex(bairros))

\* The elements of lines 51-116, b being the value of the Bairro selectbox.
FormElems(w, b) ==
    <<El("title", "Estimador de Aluguel de Imoveis", 0, ""),
      El("markdown", "intro", 0, ""),
      El("header", "Preencha os dados do imovel:", 0, ""),
      El("number_input", "Metragem", w.Metragem, ""),
      El("selectbox", "Quartos", w.Quartos, ""),
      El("selectbox", "Banheiros", w.Banheiros, ""),
      El("selectbox", "Vagas", w.Vagas, ""),
      El("number_input", "Andar", w.Andar, ""),
      El("selectbox", "Mobilia", w.Mobilia, ""),
      El("selectbox", "Pet", w.Pet, ""),
      El("selectbox", "Bairro", 0, b)>>

Reverse(seq) == [i \in 1..Len(seq) |-> seq[Len(seq) + 1 - i]]

\* Variant: the list is reordered in place (bairros_unicos.reverse())
\* before the selectbox is built.
FormStepReversing(bairros, w) ==
    LET r == Reverse(bairros)
        b == BairroValue(w.Bairro, r)
    IN  [bairros |-> r,
         widgets |-> [w EXCEPT !.Bairro = b],
         elems |-> FormElems(w, b)]

\* Lines 51-116 as a whole: the catalog as the code leaves it (it is only
\* read), the widget values of the run, and the elements rendered.
FormStep(bairros, w) ==
    LET b == BairroValue(w.Bairro, bairros)
    IN  [bairros |-> bairros,
         widgets |-> [w EXCEPT !.Bairro = b],
         elems |-> FormElems(w, b)]

WidgetKinds == {"number_input", "selectbox", "button"}

(***************************************************************************)
(* The prediction branch (lines 123-175).                                  *)
(***************************************************************************)
ColumnNames ==
    <<"Metragem", "Quartos", "Banheiros", "Mobilia", "Pet", "Vagas", "Andar", "Bairro">>

\* Variant: two columns of the DataFrame change places.
InputDataSwapped(w) ==
    <<[nome |-> "Metragem", valores |-> <<w.Metragem>>],
      [nome |-> "Quartos", valores |-> <<w.Quartos>>],
      [nome |-> "Banheiros", valores |-> <<w.Banheiros>>],
      [nome |-> "Pet", valores |-> <<w.Pet>>],
      [nome |-> "Mobilia", valores |-> <<w.Mobilia>>],
      [nome |-> "Vagas", valores |-> <<w.Vagas>>],
      [nome |-> "Andar", valores |-> <<w.Andar>>],
      [nome |-> "Bairro", valores |-> <<w.Bairro>>]>>

\* Lines 126-135: the one-row DataFrame, as its columns in order.
InputData(w) ==
    <<[nome |-> "Metragem", valores |-> <<w.Metragem>>],
      [nome |-> "Quartos", valores |-> <<w.Quartos>>],
      [nome |-> "Banheiros", valores |-> <<w.Banheiros>>],
      [nome |-> "Mobilia", valores |-> <<w.Mobilia>>],
      [nome |-> "Pet", valores |-> <<w.Pet>>],
      [nome |-> "Vagas", valores |-> <<w.Vagas>>],
      [nome |-> "Andar", valores |-> <<w.Andar>>],
      [nome |-> "Bairro", valores |-> <<w.Bairro>>]>>

Col(X, nome) == X[CHOOSE i \in 1..Len(X) : X[i].nome = nome].valores[1]

BairroPremium(b) ==
    IF b = "aclimacao" THEN 400 ELSE IF b = "bela vista" THEN 650
    ELSE IF b = "centro" THEN 250 ELSE 0

\* The fitted regressor: some fixed function of the row, in centavos.
Estimate(X) ==
    100 * (Col(X, "Metragem") * 40 + Col(X, "Quartos") * 300
           + Col(X, "Banheiros") * 200 + Col(X, "Vagas") * 150
           + Col(X, "Andar") * 10 + Col(X, "Mobilia") * 500
           + Col(X, "Pet") * 50 + BairroPremium(Col(X, "Bairro"))) + 5

\* Variant: the estimate depends on how many runs the process has served.
PredictDrifting(m, X) ==
    IF m = "strict" /\ Col(X, "Bairro") \notin KnownBairros
    THEN [raised |-> TRUE, exc |-> "ValueError",
          previsao |-> [kind |-> "none", centavos |-> 0]]
    ELSE [raised |-> FALSE, exc |-> "",
          previsao |-> [kind |-> IF m = "multioutput" THEN "array" ELSE "scalar",
                        centavos |-> Estimate(X) + runs]]

\* Line 139: modelo_pipeline.predict(input_data)[0].
Predict(m, X) ==
    IF m = "strict" /\ Col(X, "Bairro") \notin KnownBairros
    THEN [raised |-> TRUE, exc |-> "ValueError",
          previsao |-> [kind |-> "none", centavos |-> 0]]
    ELSE IF m = "multioutput"
    THEN [raised |-> FALSE, exc |-> "",
          previsao |-> [kind |-> "array", centavos |-> Estimate(X)]]
    ELSE [raised |-> FALSE, exc |-> "",
          previsao |-> [kind |-> "scalar", centavos |-> Estimate(X)]]

RECURSIVE Groups(_)
\* The thousands groups of n, most significant first ("," of the format).
Groups(n) == IF n < 1000 THEN <<n>> ELSE Append(Groups(n \div 1000), n % 1000)

\* Line 145: f"R$ {previsao:,.2f}"; formatting a non-scalar raises.
FormatPreco(previsao) ==
    IF previsao.kind # "scalar"
    THEN [raised |-> TRUE, exc |-> "TypeError",
          texto |-> [simbolo |-> "", grupos |-> <<>>, centavos |-> 0]]
    ELSE [raised |-> FALSE, exc |-> "",
          texto |-> [simbolo |-> "R$",
                     grupos |-> Groups(previsao.centavos \div 100),
                     centavos |-> previsao.centavos % 100]]

\* str.title() on the catalog's names; None has no such method.
Title(b) ==
    IF b = "aclimacao" THEN "Aclimacao" ELSE IF b = "bela vista" THEN "Bela Vista"
    ELSE IF b = "centro" THEN "Centro" ELSE b

SimNao(x) == IF x = 1 THEN "Sim" ELSE "Nao"

\* Lines 142-169 in order of execution: the elements rendered until the
\* first exception, and that exception.
RenderResult(w, previsao) ==
    LET f == FormatPreco(previsao)
        head == <<El("subheader", "Resultado da Previsao:", 0, "")>>
        upToPet ==
            head \o
            <<[el |-> "success", label |-> "preco", num |-> 0, txt |-> "",
               preco |-> f.texto],
              El("markdown", "---", 0, ""),
              El("subheader", "Resumo dos Dados Informados:", 0, ""),
              El("write", "Metragem", w.Metragem, "m2"),
              El("write", "Quartos", w.Quartos, ""),
              El("write", "Banheiros", w.Banheiros, ""),
              El("write", "Vagas", w.Vagas, ""),
              El("write", "Andar", IF w.Andar > 0 THEN w.Andar ELSE 0,
                                   IF w.Andar > 0 THEN "" ELSE "Terreo"),
              El("write", "Mobiliado", 0, SimNao(w.Mobilia)),
              El("write", "Aceita Pet", 0, SimNao(w.Pet))>>
    IN  IF f.raised
        THEN [raised |-> TRUE, exc |-> f.exc, elems |-> head]
        ELSE IF w.Bairro = NoneValue
        THEN [raised |-> TRUE, exc |-> "AttributeError", elems |-> upToPet]
        ELSE [raised |-> FALSE, exc |-> "",
              elems |-> upToPet \o
                        <<El("write", "Bairro", 0, Title(w.Bairro)),
                          El("markdown", "---", 0, ""),
                          El("info", "Informacoes do Modelo", 0, "")>>]

\* Variant: the handler is "except ValueError".
HandledOnlyValueError(exc) == exc = "ValueError"

\* Line 171: "except Exception" catches every exception the try block can
\* raise here.
Handled(exc) == exc \in {"ValueError", "TypeError", "AttributeError"}

(***************************************************************************)
(* What a user can do with the rendered form.                              *)
(***************************************************************************)
Fields == {"Metragem", "Quartos", "Banheiros", "Mobilia", "Pet", "Vagas", "Andar", "Bairro"}

NumberFields == {"Metragem", "Andar"}

First(options) == {options[1]}
Last(options) == {options[Len(options)]}

\* The values a user tries on a widget: both sides of the limits of a
\* number input, the first or the last option of a selectbox (the one that
\* is not its default), any option of the Bairro selectbox.
Offered(campo, bairros) ==
    CASE campo = "Metragem" -> {MetragemMin - 5, MetragemMax, MetragemMax + 5}
      [] campo = "Andar" -> {AndarMin - 1, AndarMin, AndarMax + 1}
      [] campo = "Quartos" -> Last(QuartosOptions)
      [] campo = "Banheiros" -> First(BanheirosOptions)
      [] campo = "Vagas" -> Last(VagasOptions)
      [] campo = "Mobilia" -> Last(MobiliaOptions)
      [] campo = "Pet" -> First(PetOptions)
      [] campo = "Bairro" -> Range(bairros)

\* Whether the widget of the field commits the value.
Accepts(campo, v, bairros) ==
    CASE campo = "Metragem" -> NumberInputAccepts(v, MetragemMin, MetragemMax)
      [] campo = "Andar" -> NumberInputAccepts(v, AndarMin, AndarMax)
      [] campo = "Quartos" -> v \in Range(QuartosOptions)
      [] campo = "Banheiros" -> v \in Range(BanheirosOptions)
      [] campo = "Vagas" -> v \in Range(VagasOptions)
      [] campo = "Mobilia" -> v \in Range(MobiliaOptions)
      [] campo = "Pet" -> v \in Range(PetOptions)
      [] campo = "Bairro" -> v \in Range(bairros)

(***************************************************************************)
(* State machine.                                                          *)
(***************************************************************************)
UnboundModel == "<unbound>"
UnboundList == [bound |-> FALSE, lista |-> <<>>]

Ended == {"idle", "done", "stopped", "crashed"}

Init ==
    /\ modelFile \in ModelFiles
    /\ bairrosFile \in BairrosFiles
    /\ resourceCache = EmptyResource
    /\ dataCache = EmptyData
    /\ loads = [modelo |-> 0, bairros |-> 0]
    /\ runs = 0
    /\ pc = [s \in Sessions |-> "idle"]
    /\ widgets = [s \in Sessions |-> InitialWidgets]
    /\ pressed = [s \in Sessions |-> FALSE]
    /\ modelo_pipeline = [s \in Sessions |-> UnboundModel]
    /\ bairros_unicos = [s \in Sessions |-> UnboundList]
    /\ out = [s \in Sessions |-> <<>>]
    /\ calls = [s \in Sessions |-> <<>>]
    /\ attempt = [s \in Sessions |-> <<>>]
    /\ ref = <<>>

\* The script starts again from line 1 for session s: nothing is rendered
\* yet and the module-level names are not bound yet.
StartRun(s) ==
    /\ runs < MaxRuns
    /\ runs' = runs + 1
    /\ pc' = [pc EXCEPT ![s] = "carregar_modelo"]
    /\ modelo_pipeline' = [modelo_pipeline EXCEPT ![s] = UnboundModel]
    /\ bairros_unicos' = [bairros_unicos EXCEPT ![s] = UnboundList]
    /\ out' = [out EXCEPT ![s] = <<>>]
    /\ calls' = [calls EXCEPT ![s] = <<>>]
    /\ UNCHANGED <<modelFile, bairrosFile, resourceCache, dataCache, loads, ref>>

\* A browser opens (or reloads) the page: a fresh session state.
OpenPage(s) ==
    /\ pc[s] \in Ended
    /\ widgets' = [widgets EXCEPT ![s] = InitialWidgets]
    /\ pressed' = [pressed EXCEPT ![s] = FALSE]
    /\ attempt' = [attempt EXCEPT ![s] = <<>>]
    /\ StartRun(s)

\* The user changes a widget to a value the widget commits: rerun.
SetWidget(s, campo, v) ==
    /\ pc[s] = "done"
    /\ Accepts(campo, v, bairros_unicos[s].lista)
    /\ v # widgets[s][campo]
    /\ widgets' = [widgets EXCEPT ![s][campo] = v]
    /\ pressed' = [pressed EXCEPT ![s] = FALSE]
    /\ attempt' = [attempt EXCEPT ![s] = <<>>]
    /\ StartRun(s)

\* The user types a value the widget does not commit: the session keeps the
\* old value and the script is not run.
RefuseInput(s, campo, v) ==
    /\ pc[s] = "done"
    /\ ~Accepts(campo, v, bairros_unicos[s].lista)
    /\ attempt[s] # <<[campo |-> campo, valor |-> v]>>
    /\ attempt' = [attempt EXCEPT ![s] = <<[campo |-> campo, valor |-> v]>>]
    /\ UNCHANGED <<modelFile, bairrosFile, resourceCache, dataCache, loads, runs,
                   pc, widgets, pressed, modelo_pipeline, bairros_unicos, out,
                   calls, ref>>

\* The user presses "Estimar Valor": rerun with the button returning True.
PressButton(s) ==
    /\ pc[s] = "done"
    /\ pressed' = [pressed EXCEPT ![s] = TRUE]
    /\ UNCHANGED <<widgets, attempt>>
    /\ StartRun(s)

\* Line 44: modelo_pipeline = carregar_modelo().
CarregarModelo(s) ==
    /\ pc[s] = "carregar_modelo"
    /\ LET r == CachedCall(resourceCache, CarregarModeloBody(modelFile))
       IN  /\ resourceCache' = r.cache
           /\ loads' = IF r.computed
                       THEN [loads EXCEPT !.modelo = @ + 1] ELSE loads
           /\ out' = [out EXCEPT ![s] = @ \o r.msgs]
           /\ IF r.stop
              THEN /\ pc' = [pc EXCEPT ![s] = "stopped"]
                   /\ UNCHANGED modelo_pipeline
              ELSE /\ pc' = [pc EXCEPT ![s] = "carregar_bairros"]
                   /\ modelo_pipeline' = [modelo_pipeline EXCEPT ![s] = r.valor]
    /\ UNCHANGED <<modelFile, bairrosFile, dataCache, runs, widgets, pressed,
                   bairros_unicos, calls, attempt, ref>>

\* Line 45: bairros_unicos = carregar_bairros().
CarregarBairros(s) ==
    /\ pc[s] = "carregar_bairros"
    /\ LET r == CachedCall(dataCache, CarregarBairrosBody(bairrosFile))
       IN  /\ dataCache' = r.cache
           /\ loads' = IF r.computed
                       THEN [loads EXCEPT !.bairros = @ + 1] ELSE loads
           /\ out' = [out EXCEPT ![s] = @ \o r.msgs]
           /\ IF r.stop
              THEN /\ pc' = [pc EXCEPT ![s] = "stopped"]
                   /\ UNCHANGED bairros_unicos
              ELSE /\ pc' = [pc EXCEPT ![s] = "form"]
                   /\ bairros_unicos' =
                        [bairros_unicos EXCEPT ![s] = [bound |-> TRUE, lista |-> r.valor]]
    /\ UNCHANGED <<modelFile, bairrosFile, resourceCache, runs, widgets, pressed,
                   modelo_pipeline, calls, attempt, ref>>

\* Lines 51-116: title, sidebar and the eight widgets.
RenderForm(s) ==
    /\ pc[s] = "form"
    /\ LET f == FormStep(bairros_unicos[s].lista, widgets[s])
       IN  /\ bairros_unicos' = [bairros_unicos EXCEPT ![s].lista = f.bairros]
           /\ widgets' = [widgets EXCEPT ![s] = f.widgets]
           /\ out' = [out EXCEPT ![s] = @ \o f.elems]
    /\ pc' = [pc EXCEPT ![s] = "button"]
    /\ UNCHANGED <<modelFile, bairrosFile, resourceCache, dataCache, loads, runs,
                   pressed, modelo_pipeline, calls, attempt, ref>>

\* Lines 123 and 174-175: the button, and the hint when it was not pressed.
Button(s) ==
    /\ pc[s] = "button"
    /\ IF pressed[s]
       THEN /\ out' = [out EXCEPT ![s] = Append(@, El("button", "Estimar Valor", 1, ""))]
            /\ pc' = [pc EXCEPT ![s] = "try"]
       ELSE /\ out' = [out EXCEPT ![s] = @ \o
                         <<El("button", "Estimar Valor", 0, ""),
                           El("info", "Preencha os dados ao lado", 0, "")>>]
            /\ pc' = [pc EXCEPT ![s] = "done"]
    /\ UNCHANGED <<modelFile, bairrosFile, resourceCache, dataCache, loads, runs,
                   widgets, pressed, modelo_pipeline, bairros_unicos, calls,
                   attempt, ref>>

\* Lines 124-172: the try block and its handler.
TryBlock(s) ==
    /\ pc[s] = "try"
    /\ LET X == InputData(widgets[s])
           p == Predict(modelo_pipeline[s], X)
           r == IF p.raised
                THEN [raised |-> TRUE, exc |-> p.exc, elems |-> <<>>]
                ELSE RenderResult(widgets[s], p.previsao)
       IN  /\ calls' = [calls EXCEPT ![s] = Append(@, X)]
           /\ IF ~r.raised
              THEN /\ out' = [out EXCEPT ![s] = @ \o r.elems]
                   /\ pc' = [pc EXCEPT ![s] = "done"]
              ELSE IF Handled(r.exc)
              THEN /\ out' = [out EXCEPT ![s] = @ \o r.elems \o
                                <<El("error", "previsao", 0, r.exc)>>]
                   /\ pc' = [pc EXCEPT ![s] = "done"]
              ELSE /\ out' = [out EXCEPT ![s] = @ \o r.elems \o
                                <<El("exception", "traceback", 0, r.exc)>>]
                   /\ pc' = [pc EXCEPT ![s] = "crashed"]
    /\ UNCHANGED <<modelFile, bairrosFile, resourceCache, dataCache, loads, runs,
                   widgets, pressed, modelo_pipeline, bairros_unicos, attempt, ref>>

\* Observation only: one finished request is kept, to compare later
\* requests with it.
Remember(s) ==
    /\ pc[s] = "done"
    /\ pressed[s]
    /\ ref = <<>>
    /\ ref' = <<[request |-> widgets[s], modelo |-> modelo_pipeline[s],
                 runs |-> runs, out |-> out[s]]>>
    /\ UNCHANGED <<modelFile, bairrosFile, resourceCache, dataCache, loads, runs,
                   pc, widgets, pressed, modelo_pipeline, bairros_unicos, out,
                   calls, attempt>>

Next ==
    \E s \in Sessions :
        \/ OpenPage(s)
        \/ \E campo \in Fields :
             \E v \in Offered(campo, bairros_unicos[s].lista) : SetWidget(s, campo, v)
        \/ \E campo \in NumberFields :
             \E v \in Offered(campo, bairros_unicos[s].lista) : RefuseInput(s, campo, v)
        \/ PressButton(s)
        \/ CarregarModelo(s)
        \/ CarregarBairros(s)
        \/ RenderForm(s)
        \/ Button(s)
        \/ TryBlock(s)
        \/ Remember(s)

Spec == Init /\ [][Next]_vars

(***************************************************************************)
(* Properties.                                                             *)
(***************************************************************************)
HasEl(s, kind, label) ==
    \E i \in 1..Len(out[s]) : out[s][i].el = kind /\ out[s][i].label = label

ModelLoadFailed(s) == HasEl(s, "error", "modelo")

PredictionFailed(s) == HasEl(s, "error", "previsao")

\* C1: when the model cannot be loaded (file missing or any other load
\* error), every run that got past line 44 has stopped inside
\* carregar_modelo: it rendered the model error and nothing else, bound
\* neither modelo_pipeline nor bairros_unicos (the catalog is not loaded in
\* that run), rendered no widget and never called predict.
C1_ModelFailureHalts ==
    \A s \in Sessions :
        (modelFile.status # "ok" /\ pc[s] \notin {"idle", "carregar_modelo"}) =>
            /\ pc[s] = "stopped"
            /\ ModelLoadFailed(s)
            /\ Len(out[s]) = 1
            /\ modelo_pipeline[s] = UnboundModel
            /\ ~bairros_unicos[s].bound
            /\ \A i \in 1..Len(out[s]) : out[s][i].el \notin WidgetKinds
            /\ calls[s] = <<>>
            /\ loads.bairros = 0

C1_Witness ==
    \E s \in Sessions :
        /\ modelFile.status = "corrupt"
        /\ pc[s] = "stopped"
        /\ ModelLoadFailed(s)

\* C2 (as claimed): predict is only ever called with a Bairro value that
\* belongs to the loaded catalog, also when the catalog is empty.
C2_PredictOnlyCatalogBairro ==
    \A s \in Sessions :
        \A i \in 1..Len(calls[s]) :
            Col(calls[s][i], "Bairro") \in Range(bairros_unicos[s].lista)

InDomain(X) ==
    /\ Col(X, "Metragem") \in 10..1000
    /\ Col(X, "Andar") \in 0..50
    /\ Col(X, "Quartos") \in 0..8
    /\ Col(X, "Banheiros") \in 0..6
    /\ Col(X, "Vagas") \in 0..5
    /\ Col(X, "Mobilia") \in {0, 1}
    /\ Col(X, "Pet") \in {0, 1}

C4_LoadAtMostOnce == loads.modelo <= 1 /\ loads.bairros <= 1

\* C5 (as claimed): when the catalog file is missing or corrupt and the
\* model was loaded, the run does not halt: it goes on with an empty
\* catalog.
C5_CatalogFailureDegrades ==
    \A s \in Sessions :
        (bairrosFile.status # "ok" /\ modelo_pipeline[s] # UnboundModel
         /\ pc[s] # "carregar_bairros") =>
            /\ pc[s] # "stopped"
            /\ bairros_unicos[s] = [bound |-> TRUE, lista |-> <<>>]

\* C6 (as claimed): a request that ends with the prediction error shows no
\* part of a result: neither the formatted price nor a line of the echo.
C6_NoPartialResult ==
    \A s \in Sessions :
        PredictionFailed(s) =>
            \A i \in 1..Len(out[s]) : out[s][i].el \notin {"success", "write"}

\* C7: once the artifacts are loaded no exception of the prediction branch
\* escapes: a run never ends in an unhandled exception, and a run whose
\* button was pressed ends either with the complete result or with the
\* error message of the handler as its last element.
C7_NoUnhandledException ==
    \A s \in Sessions :
        /\ pc[s] # "crashed"
        /\ ~HasEl(s, "exception", "traceback")
        /\ (pc[s] = "done" /\ pressed[s]) =>
              LET last == out[s][Len(out[s])]
              IN  \/ last.el = "info" /\ last.label = "Informacoes do Modelo"
                  \/ last.el = "error" /\ last.label = "previsao"

C7_Witness ==
    \E s \in Sessions :
        /\ pc[s] = "done"
        /\ pressed[s]
        /\ out[s][Len(out[s])] = El("error", "previsao", 0, "TypeError")

SameRequest(s) ==
    /\ ref # <<>>
    /\ pc[s] = "done"
    /\ pressed[s]
    /\ ref[1].request = widgets[s]
    /\ ref[1].modelo = modelo_pipeline[s]

C9_ReadOnlyStep ==
    /\ resourceCache.hit => resourceCache' = resourceCache
    /\ dataCache.hit => dataCache' = dataCache
    /\ \A s \in Sessions :
         /\ (modelo_pipeline[s] # UnboundModel /\ pc[s] \notin Ended) =>
               /\ modelo_pipeline'[s] = modelo_pipeline[s]
               /\ modelo_pipeline[s] = resourceCache.valor
         /\ (bairros_unicos[s].bound /\ pc[s] \notin Ended) =>
               /\ bairros_unicos'[s] = bairros_unicos[s]
               /\ bairros_unicos[s].lista = dataCache.valor

C9_ReadOnly == [][C9_ReadOnlyStep]_vars

C9_Witness ==
    \E s \in Sessions :
        /\ pc[s] = "done"
        /\ pressed[s]
        /\ calls[s] # <<>>
        /\ bairros_unicos[s].lista = <<"bela vista", "aclimacao">>
        /\ dataCache.valor = <<"bela vista", "aclimacao">>
        /\ widgets[s].Bairro = "aclimacao"

\* C10: a run whose button was pressed calls predict exactly once, with a
\* one-row batch whose columns are, in order, Metragem, Quartos, Banheiros,
\* Mobilia, Pet, Vagas, Andar, Bairro, each holding the widget's value; a
\* run whose button was not pressed (or that has not reached the try block)
\* does not call predict.
C10_PredictOncePerPress ==
    \A s \in Sessions :
        IF pressed[s] /\ pc[s] = "done"
        THEN /\ Len(calls[s]) = 1
             /\ Len(calls[s][1]) = Len(ColumnNames)
             /\ \A i \in 1..Len(ColumnNames) :
                  /\ calls[s][1][i].nome = ColumnNames[i]
                  /\ calls[s][1][i].valores = <<widgets[s][ColumnNames[i]]>>
        ELSE calls[s] = <<>>

C10_Witness ==
    \E s \in Sessions :
        /\ pressed[s]
        /\ pc[s] = "done"
        /\ Len(calls[s]) = 1
        /\ widgets[s].Quartos = 8
        /\ HasEl(s, "success", "preco")

====
